---- MODULE Spec2Model ----
(***************************************************************************)
(* A model of wider2yolo.py: the filter pass (filter_annotations) and the  *)
(* conversion pass (process_annotations) over a WIDER-style annotation     *)
(* file, with the helpers they call.                                       *)
(*                                                                         *)
(* A raw line of the annotation file is a record                           *)
(*     [toks |-> its whitespace-separated tokens, pad |-> BOOLEAN]          *)
(* where pad says that the raw line carries white space around its text    *)
(* other than one terminating newline (a trailing blank as in the WIDER    *)
(* ground-truth files, leading blanks, a missing final newline).  The      *)
(* text of a line after str.strip() is its token sequence.                 *)
(***************************************************************************)
EXTENDS Integers, Sequences, FiniteSets, TLC

\* ------------------------------------------------------------------ bounds
MaxLines == 4

\* longest list of missing images a terminating scan can build, plus one
MaxMissing == MaxLines + 1

\* ------------------------------------------------------------- line texts
ImageToks == {"p/a.jpg", "q//a.JPG"}

IntToks == {"-3", "0", "1", "2", "3", "4"}

\* str.lower() on the tokens of the alphabet
Lower(tok) ==
    IF tok = "q//a.JPG" THEN "q//a.jpg" ELSE tok

\* text.lower().endswith(('.jpg', '.jpeg')): decided by the end of the text,
\* that is by its last token
EndsWithJpg(text) ==
    /\ Len(text) > 0
    /\ Lower(text[Len(text)]) \in {"p/a.jpg", "q//a.jpg"}

\* int(tok) for a token without white space
IntOf(tok) ==
    CASE tok = "-3" -> 0 - 3
      [] tok = "0" -> 0
      [] tok = "1" -> 1
      [] tok = "2" -> 2
      [] tok = "3" -> 3
      [] tok = "4" -> 4

\* int(text) raises ValueError unless the stripped text is one integer literal
IntParses(text) ==
    /\ Len(text) = 1
    /\ text[1] \in IntToks

\* raw_line.strip()
Strip(line) == line.toks

\* text + '\n', as a line of a written file
WithNewline(text) == [toks |-> text, pad |-> FALSE]

\* os.path.normpath on the image names of the alphabet
Normpath(name) ==
    IF name = "q//a.JPG" THEN "q/a.JPG" ELSE name

\* os.path.splitext(path)[0]
SplitextStem(path) ==
    CASE path = "p/a.jpg" -> "p/a"
      [] path = "q/a.JPG" -> "q/a"
      [] path = "a.jpg" -> "a"
      [] path = "a.JPG" -> "a"

\* os.path.basename(path)
Basename(path) ==
    CASE path = "p/a.jpg" -> "a.jpg"
      [] path = "q/a.JPG" -> "a.JPG"
      [] path = "output/voc" -> "voc"
      [] path = "output/yolo" -> "yolo"

output_yolo_dir == "output/yolo"

output_voc_dir == "output/voc"

\* the name of an image line: the whole stripped line (one token in the
\* alphabet below)
ImageName(text) == text[1]

\* ---------------------------------------------------------- input alphabet
Raw(toks) == [toks |-> toks, pad |-> FALSE]

Padded(toks) == [toks |-> toks, pad |-> TRUE]

ImageLines == {Raw(<<"p/a.jpg">>), Raw(<<"q//a.JPG">>)}

CountLines == {Raw(<<"-3">>), Raw(<<"0">>), Raw(<<"1">>), Raw(<<"2">>)}

BoxLines ==
    {Padded(<<"1", "2", "3", "4", "0">>), Raw(<<"1", "2", "3">>), Raw(<<"1", "x", "3", "4">>)}

LineAlphabet == ImageLines \cup CountLines \cup BoxLines

Files == UNION {[1..n -> LineAlphabet] : n \in 0..MaxLines}

ImagePaths == {Normpath(ImageName(Strip(l))) : l \in ImageLines}

\* ------------------------------------------------------------------ state
VARIABLES
    pass,             \* which function runs: "filter" or "process"
    pc,               \* "loop": in the while loop; "done": function returned
    lines,            \* file.readlines()
    existing,         \* the image paths for which os.path.exists is true
    index,
    current_image,
    filtered_lines,
    missing_images,
    processed_images,
    outfile,          \* content of output_annotations_file, <<>> in a 1-tuple once written
    bounding_boxes,
    yolo_file_count,
    voc_file_count,
    yolo_files,       \* path -> content of the YOLO files on disk
    voc_files,        \* path -> document of the VOC files on disk
    log,              \* the records written by logging, oldest first
    img_size,         \* img_width, img_height: <<>> before the probe and for None
    first_run         \* what an earlier run of filter_annotations left, in a 1-tuple

vars ==
    <<pass, pc, lines, existing, index, current_image, filtered_lines,
      missing_images, processed_images, outfile, bounding_boxes,
      yolo_file_count, voc_file_count, yolo_files, voc_files, log,
      img_size, first_run>>

filterVars ==
    <<filtered_lines, missing_images, processed_images, outfile, first_run>>

convVars ==
    <<bounding_boxes, yolo_file_count, voc_file_count, yolo_files, voc_files,
      img_size>>

total_lines == Len(lines)

\* lines[i] of the code: 0-based, and a negative i counts from the end of the
\* list (i >= -len(lines) in every reachable state, so no IndexError)
LineAt(ls, i) == IF i >= 0 THEN ls[i + 1] ELSE ls[Len(ls) + i + 1]

\* one record of the log: what was logged and about which text or path.
\* The log holds the warnings, the errors and the two "saved" messages.
Logged(kind, subject) == <<kind, subject>>

NoFiles == [p \in {} |-> <<>>]

\* the file system after writing content to path
WriteFile(files, path, content) ==
    [p \in (DOMAIN files) \cup {path} |-> IF p = path THEN content ELSE files[p]]

\* ------------------------------------------------------ filter_annotations
\* os.path.exists(os.path.normpath(os.path.join(image_dir, current_image)))
ImageExists(ex, name) == Normpath(name) \in ex

\* a copy loop that writes only the box lines holding four tokens or more
RECURSIVE FilterBoxLoop_ValidOnly(_, _, _, _)
FilterBoxLoop_ValidOnly(ls, remaining, i, out) ==
    IF remaining <= 0 THEN [index |-> i, out |-> out, short |-> FALSE]
    ELSE IF i >= Len(ls) THEN [index |-> i, out |-> out, short |-> TRUE]
    ELSE FilterBoxLoop_ValidOnly(ls, remaining - 1, i + 1,
             IF Len(Strip(LineAt(ls, i))) >= 4
             THEN Append(out, WithNewline(Strip(LineAt(ls, i))))
             ELSE out)

\* the for loop copying the box lines of a kept record: result is the
\* cursor and the output after the loop
RECURSIVE FilterBoxLoop(_, _, _, _)
FilterBoxLoop(ls, remaining, i, out) ==
    IF remaining <= 0 THEN [index |-> i, out |-> out, short |-> FALSE]
    ELSE IF i >= Len(ls) THEN [index |-> i, out |-> out, short |-> TRUE]
    ELSE FilterBoxLoop(ls, remaining - 1, i + 1,
                       Append(out, WithNewline(Strip(LineAt(ls, i)))))

\* cursor after the count line of a record whose image is missing
SkipMissing(i, num_boxes) == i + 1 + num_boxes

\* cursor after a count line that int() rejects, image present
SkipBadCount(i) == i + 1

\* cursor after a count line that int() rejects, image missing
SkipMissingBadCount(i) == i + 1

\* an output file opened for appending instead of for writing
WriteOutfile_Append(old, new_lines) ==
    IF old = <<>> THEN <<new_lines>> ELSE <<old[1] \o new_lines>>

\* open(output_annotations_file, 'w') and writelines: the file holds the new
\* lines whatever it held before
WriteOutfile(old, new_lines) == <<new_lines>>

FilterInit ==
    /\ pass = "filter"
    /\ pc = "loop"
    /\ lines \in Files
    /\ existing \in SUBSET ImagePaths
    /\ index = 0
    /\ current_image = ""
    /\ filtered_lines = <<>>
    /\ missing_images = <<>>
    /\ processed_images = 0
    /\ outfile = <<>>
    /\ bounding_boxes = <<>>
    /\ yolo_file_count = 0
    /\ voc_file_count = 0
    /\ yolo_files = NoFiles
    /\ voc_files = NoFiles
    /\ log = <<>>
    /\ img_size = <<>>
    /\ first_run = <<>>

\* one iteration of the while loop at an image line whose image exists
FilterKeep ==
    /\ pass = "filter" /\ pc = "loop"
    /\ index < total_lines
    /\ LET line == Strip(LineAt(lines, index))
           out1 == Append(filtered_lines, WithNewline(line))
           i1 == index + 1
       IN /\ EndsWithJpg(line)
          /\ ImageExists(existing, ImageName(line))
          /\ current_image' = ImageName(line)
          /\ IF i1 >= total_lines
             THEN /\ index' = i1
                  /\ filtered_lines' = out1
                  /\ log' = Append(log, Logged("no_boxes", line))
                  /\ UNCHANGED processed_images
             ELSE LET num_boxes_line == Strip(LineAt(lines, i1))
                  IN IF IntParses(num_boxes_line)
                     THEN LET num_boxes == IntOf(num_boxes_line[1])
                              out2 == Append(out1, WithNewline(num_boxes_line))
                              r == FilterBoxLoop(lines, num_boxes, i1 + 1, out2)
                          IN /\ index' = r.index
                             /\ filtered_lines' = r.out
                             /\ processed_images' = processed_images + 1
                             /\ log' = IF r.short
                                       THEN Append(log, Logged("not_enough", line))
                                       ELSE log
                     ELSE /\ index' = SkipBadCount(i1)
                          /\ filtered_lines' = out1
                          /\ log' = Append(log, Logged("bad_count", line))
                          /\ UNCHANGED processed_images
    /\ UNCHANGED <<pass, pc, lines, existing, missing_images, outfile, first_run>>
    /\ UNCHANGED convVars

\* one iteration of the while loop at an image line whose image is missing
FilterMissing ==
    /\ pass = "filter" /\ pc = "loop"
    /\ index < total_lines
    /\ Len(missing_images) < MaxMissing
    /\ LET line == Strip(LineAt(lines, index))
           i1 == index + 1
       IN /\ EndsWithJpg(line)
          /\ ~ImageExists(existing, ImageName(line))
          /\ current_image' = ImageName(line)
          /\ missing_images' = Append(missing_images, ImageName(line))
          /\ IF i1 >= total_lines
             THEN index' = i1
             ELSE LET num_boxes_line == Strip(LineAt(lines, i1))
                  IN IF IntParses(num_boxes_line)
                     THEN index' = SkipMissing(i1, IntOf(num_boxes_line[1]))
                     ELSE index' = SkipMissingBadCount(i1)
    /\ UNCHANGED <<pass, pc, lines, existing, filtered_lines, processed_images, outfile,
                   log, first_run>>
    /\ UNCHANGED convVars

\* one iteration of the while loop at a line that is no image line
FilterUnexpected ==
    /\ pass = "filter" /\ pc = "loop"
    /\ index < total_lines
    /\ ~EndsWithJpg(Strip(LineAt(lines, index)))
    /\ index' = index + 1
    /\ log' = Append(log, Logged("unexpected", Strip(LineAt(lines, index))))
    /\ UNCHANGED <<pass, pc, lines, existing, current_image>>
    /\ UNCHANGED filterVars
    /\ UNCHANGED convVars

\* the loop has ended: the filtered annotations are written
FilterWrite ==
    /\ pass = "filter" /\ pc = "loop"
    /\ index >= total_lines
    /\ outfile' = WriteOutfile(outfile, filtered_lines)
    /\ pc' = "done"
    /\ UNCHANGED <<pass, lines, existing, index, current_image,
                   filtered_lines, missing_images, processed_images, log, first_run>>
    /\ UNCHANGED convVars

FilterNext == FilterKeep \/ FilterMissing \/ FilterUnexpected \/ FilterWrite

FilterSpec == FilterInit /\ [][FilterNext]_vars

\* ---------------------------------------------------------- exact numbers
\* Python's float results are kept as exact fractions <<numerator, denominator>>
Q(n) == <<n, 1>>

QAdd(p, q) == <<p[1] * q[2] + q[1] * p[2], p[2] * q[2]>>

\* p / k for an integer k # 0
QDiv(p, k) == <<p[1], p[2] * k>>

\* --------------------------------------------------------- convert_to_yolo
\* convert_to_yolo raises: ValueError when bbox does not unpack into four
\* values, ZeroDivisionError in one of the divisions
YoloRaises(bbox, img_width, img_height) ==
    Len(bbox) # 4 \/ img_width = 0 \/ img_height = 0

\* a conversion that takes the corner of the box for its centre
convert_to_yolo_Corner(bbox, img_width, img_height) ==
    [cls |-> "0",
     x_center |-> QDiv(Q(bbox[1]), img_width),
     y_center |-> QDiv(Q(bbox[2]), img_height),
     width_norm |-> QDiv(Q(bbox[3]), img_width),
     height_norm |-> QDiv(Q(bbox[4]), img_height)]

convert_to_yolo(bbox, img_width, img_height) ==
    LET xmin == bbox[1]
        ymin == bbox[2]
        width == bbox[3]
        height == bbox[4]
    IN [cls |-> "0",
        x_center |-> QDiv(QAdd(Q(xmin), QDiv(Q(width), 2)), img_width),
        y_center |-> QDiv(QAdd(Q(ymin), QDiv(Q(height), 2)), img_height),
        width_norm |-> QDiv(Q(width), img_width),
        height_norm |-> QDiv(Q(height), img_height)]

\* ---------------------------------------------------------- create_voc_xml
\* an object element whose far corner is the width and height of the box
VocObject_SizeAsCorner(bbox) ==
    [name |-> "face", pose |-> "Unspecified", truncated |-> "0", difficult |-> "0",
     xmin |-> ToString(bbox[1]),
     ymin |-> ToString(bbox[2]),
     xmax |-> ToString(bbox[3]),
     ymax |-> ToString(bbox[4])]

VocObject(bbox) ==
    [name |-> "face", pose |-> "Unspecified", truncated |-> "0", difficult |-> "0",
     xmin |-> ToString(bbox[1]),
     ymin |-> ToString(bbox[2]),
     xmax |-> ToString(bbox[1] + bbox[3]),
     ymax |-> ToString(bbox[2] + bbox[4])]

\* the object elements, in the order of the boxes; a box of another length
\* than 4 is passed over
RECURSIVE VocObjects(_)
VocObjects(boxes) ==
    IF boxes = <<>> THEN <<>>
    ELSE IF Len(Head(boxes)) # 4 THEN VocObjects(Tail(boxes))
    ELSE <<VocObject(Head(boxes))>> \o VocObjects(Tail(boxes))

VocDocument(filename, width, height, boxes, output_dir) ==
    [folder |-> Basename(output_dir),
     filename |-> Basename(filename),
     database |-> "WIDER Face",
     width |-> ToString(width),
     height |-> ToString(height),
     depth |-> "3",
     segmented |-> "0",
     objects |-> VocObjects(boxes)]

\* xml_output_path
VocPath(filename, output_dir) ==
    <<output_dir, SplitextStem(Basename(filename)), ".xml">>

\* ---------------------------------------------------------- get_image_size
\* (width, height) of a readable image, <<>> for (None, None)
SizeAnswers == {<<>>, <<4, 2>>, <<0, 2>>}

\* ----------------------------------------------------- process_annotations
\* a length test that is off by one
BoxFields_OffByOne == 4 - 1

\* number of leading tokens a box line needs
BoxFields == 4

\* bbox_values[:4]
FirstFour(bbox_values) ==
    SubSeq(bbox_values, 1, IF Len(bbox_values) < 4 THEN Len(bbox_values) ELSE 4)

\* one box line: <<bbox>> when it is accepted, <<>> when it is dropped
ParseBoxLine(bbox_values) ==
    IF Len(bbox_values) >= BoxFields
    THEN LET first == FirstFour(bbox_values)
         IN IF \A k \in 1..Len(first) : first[k] \in IntToks
            THEN <<[k \in 1..Len(first) |-> IntOf(first[k])]>>
            ELSE <<>>
    ELSE <<>>

\* what is logged for one box line
BoxLineLog(bbox_values) ==
    IF Len(bbox_values) >= BoxFields
    THEN LET first == FirstFour(bbox_values)
         IN IF \A k \in 1..Len(first) : first[k] \in IntToks
            THEN <<>>
            ELSE <<Logged("invalid_box", bbox_values)>>
    ELSE <<Logged("incomplete_box", bbox_values)>>

\* a box loop that gives up the boxes read so far when the input ends early
RECURSIVE ConvBoxLoop_DropShort(_, _, _, _, _, _)
ConvBoxLoop_DropShort(ls, remaining, i, boxes, lg, image) ==
    IF remaining <= 0 THEN [index |-> i, boxes |-> boxes, log |-> lg]
    ELSE IF i >= Len(ls)
         THEN [index |-> i, boxes |-> <<>>,
               log |-> Append(lg, Logged("not_enough", image))]
    ELSE ConvBoxLoop_DropShort(ls, remaining - 1, i + 1,
                     boxes \o ParseBoxLine(Strip(LineAt(ls, i))),
                     lg \o BoxLineLog(Strip(LineAt(ls, i))), image)

\* the for loop reading the box lines of a record: the cursor, the boxes
\* and the log records after the loop
RECURSIVE ConvBoxLoop(_, _, _, _, _, _)
ConvBoxLoop(ls, remaining, i, boxes, lg, image) ==
    IF remaining <= 0 THEN [index |-> i, boxes |-> boxes, log |-> lg]
    ELSE IF i >= Len(ls)
         THEN [index |-> i, boxes |-> boxes,
               log |-> Append(lg, Logged("not_enough", image))]
    ELSE ConvBoxLoop(ls, remaining - 1, i + 1,
                     boxes \o ParseBoxLine(Strip(LineAt(ls, i))),
                     lg \o BoxLineLog(Strip(LineAt(ls, i))), image)

\* a recovery that also skips the line after the refused count line
ConvSkipBadCount_SkipTwo(i) == i + 2

\* a recovery that goes back to the image line
ConvSkipBadCount_Back(i) == i - 1

\* cursor after a count line that int() rejects
ConvSkipBadCount(i) == i + 1

\* yolo_output_path
YoloPath(normalized_image_path) ==
    <<output_yolo_dir, SplitextStem(normalized_image_path), ".txt">>

\* the lines the with-block writes before it ends or raises
RECURSIVE YoloLines(_, _, _)
YoloLines(boxes, img_width, img_height) ==
    IF boxes = <<>> THEN <<>>
    ELSE IF YoloRaises(Head(boxes), img_width, img_height) THEN <<>>
    ELSE <<convert_to_yolo(Head(boxes), img_width, img_height)>>
         \o YoloLines(Tail(boxes), img_width, img_height)

\* the with-block raises on one of the boxes
YoloWriteRaises(boxes, img_width, img_height) ==
    \E k \in 1..Len(boxes) : YoloRaises(boxes[k], img_width, img_height)

ConvInit ==
    /\ pass = "process"
    /\ pc = "loop"
    /\ lines \in Files
    /\ existing = {}
    /\ index = 0
    /\ current_image = ""
    /\ filtered_lines = <<>>
    /\ missing_images = <<>>
    /\ processed_images = 0
    /\ outfile = <<>>
    /\ bounding_boxes = <<>>
    /\ yolo_file_count = 0
    /\ voc_file_count = 0
    /\ yolo_files = NoFiles
    /\ voc_files = NoFiles
    /\ log = <<>>
    /\ img_size = <<>>
    /\ first_run = <<>>

\* an image line is the last line of the file: the loop is left
ConvImageAtEnd ==
    /\ pass = "process" /\ pc = "loop"
    /\ index < total_lines
    /\ EndsWithJpg(Strip(LineAt(lines, index)))
    /\ index + 1 >= total_lines
    /\ current_image' = ImageName(Strip(LineAt(lines, index)))
    /\ index' = index + 1
    /\ log' = Append(log, Logged("no_boxes", Strip(LineAt(lines, index))))
    /\ UNCHANGED <<pass, pc, lines, existing>>
    /\ UNCHANGED filterVars
    /\ UNCHANGED convVars

\* the line after an image line is rejected by int()
ConvBadCount ==
    /\ pass = "process" /\ pc = "loop"
    /\ index < total_lines
    /\ EndsWithJpg(Strip(LineAt(lines, index)))
    /\ index + 1 < total_lines
    /\ ~IntParses(Strip(LineAt(lines, index + 1)))
    /\ current_image' = ImageName(Strip(LineAt(lines, index)))
    /\ index' = ConvSkipBadCount(index + 1)
    /\ log' = Append(log, Logged("bad_count", Strip(LineAt(lines, index))))
    /\ UNCHANGED <<pass, pc, lines, existing>>
    /\ UNCHANGED filterVars
    /\ UNCHANGED convVars

\* a YOLO block that writes no file for a record without boxes
YoloFilesAfter_SkipEmpty(files, path, boxes, size, yolo_fails) ==
    IF size = <<>> \/ yolo_fails \/ boxes = <<>> THEN files
    ELSE WriteFile(files, path, YoloLines(boxes, size[1], size[2]))

\* a YOLO counter that goes up whether or not the block raised
YoloCountAfter_CountAlways(count, boxes, size, yolo_fails) ==
    IF size = <<>> THEN count ELSE count + 1

\* a VOC counter that also counts the records skipped for their size
VocCountAfter_CountSkipped(count, size, voc_fails) ==
    IF size # <<>> /\ voc_fails THEN count ELSE count + 1

\* the files, the counters and the log after the size probe and the two try
\* blocks.  size is the answer of get_image_size (<<>>: the record is
\* skipped); yolo_fails and voc_fails say that the operating system refuses
\* makedirs or open in the YOLO block, makedirs or write in create_voc_xml
YoloFilesAfter(files, path, boxes, size, yolo_fails) ==
    IF size = <<>> \/ yolo_fails THEN files
    ELSE WriteFile(files, path, YoloLines(boxes, size[1], size[2]))

YoloCountAfter(count, boxes, size, yolo_fails) ==
    IF size = <<>> THEN count
    ELSE IF yolo_fails \/ YoloWriteRaises(boxes, size[1], size[2]) THEN count
    ELSE count + 1

VocFilesAfter(files, name, boxes, size, voc_fails) ==
    IF size = <<>> \/ voc_fails THEN files
    ELSE WriteFile(files, VocPath(name, output_voc_dir),
                   VocDocument(name, size[1], size[2], boxes, output_voc_dir))

VocCountAfter(count, size, voc_fails) ==
    IF size = <<>> \/ voc_fails THEN count ELSE count + 1

OutputLog(image, name, boxes, size, yolo_fails, voc_fails) ==
    IF size = <<>>
    THEN <<Logged("size_error", <<name>>), Logged("skip_size", <<image>>)>>
    ELSE <<IF yolo_fails \/ YoloWriteRaises(boxes, size[1], size[2])
           THEN Logged("yolo_error", YoloPath(name))
           ELSE Logged("yolo_saved", YoloPath(name)),
           IF voc_fails
           THEN Logged("voc_error", <<image>>)
           ELSE Logged("xml_saved", VocPath(name, output_voc_dir))>>

\* an image line with a count line: the boxes are read, the image size is
\* asked for, and the two files are written
ConvRecord(size, yolo_fails, voc_fails) ==
    /\ pass = "process" /\ pc = "loop"
    /\ index < total_lines
    /\ EndsWithJpg(Strip(LineAt(lines, index)))
    /\ index + 1 < total_lines
    /\ IntParses(Strip(LineAt(lines, index + 1)))
    /\ LET image == ImageName(Strip(LineAt(lines, index)))
           num_boxes == IntOf(Strip(LineAt(lines, index + 1))[1])
           r == ConvBoxLoop(lines, num_boxes, index + 2, <<>>, log, <<image>>)
           normalized_image_path == Normpath(image)
       IN /\ current_image' = image
          /\ index' = r.index
          /\ bounding_boxes' = r.boxes
          /\ img_size' = size
          /\ log' = r.log \o OutputLog(image, normalized_image_path, r.boxes,
                                       size, yolo_fails, voc_fails)
          /\ yolo_files' = YoloFilesAfter(yolo_files, YoloPath(normalized_image_path),
                                          r.boxes, size, yolo_fails)
          /\ yolo_file_count' = YoloCountAfter(yolo_file_count, r.boxes, size, yolo_fails)
          /\ voc_files' = VocFilesAfter(voc_files, normalized_image_path,
                                        r.boxes, size, voc_fails)
          /\ voc_file_count' = VocCountAfter(voc_file_count, size, voc_fails)
    /\ UNCHANGED <<pass, pc, lines, existing>>
    /\ UNCHANGED filterVars

\* a line that is no image line
ConvUnexpected ==
    /\ pass = "process" /\ pc = "loop"
    /\ index < total_lines
    /\ ~EndsWithJpg(Strip(LineAt(lines, index)))
    /\ index' = index + 1
    /\ log' = Append(log, Logged("unexpected", Strip(LineAt(lines, index))))
    /\ UNCHANGED <<pass, pc, lines, existing, current_image>>
    /\ UNCHANGED filterVars
    /\ UNCHANGED convVars

\* the loop has ended: the summary is logged
ConvSummary ==
    /\ pass = "process" /\ pc = "loop"
    /\ index >= total_lines
    /\ pc' = "done"
    /\ UNCHANGED <<pass, lines, existing, index, current_image, log>>
    /\ UNCHANGED filterVars
    /\ UNCHANGED convVars

ConvNext ==
    \/ ConvImageAtEnd
    \/ ConvBadCount
    \/ \E size \in SizeAnswers, yolo_fails \in BOOLEAN, voc_fails \in BOOLEAN :
          ConvRecord(size, yolo_fails, voc_fails)
    \/ ConvUnexpected
    \/ ConvSummary

ConvSpec == ConvInit /\ [][ConvNext]_vars

\* ------------------------------------------------------------ both passes
Init == FilterInit \/ ConvInit

Next == FilterNext \/ ConvNext

Spec == Init /\ [][Next]_vars

\* ================================================================== claims
\* the cursor stays inside Python's index range: lines[index] never raises
IndexInRange == index >= 0 - Len(lines)

\* the text of line number p (1-based) of a file
TextAt(ls, p) == ls[p].toks

\* the count a count line declares
CountAt(ls, p) == IntOf(TextAt(ls, p)[1])

\* the scan is at an image line that is followed by another line
AtImageWithNext ==
    /\ pc = "loop"
    /\ index >= 0 /\ index + 1 < Len(lines)
    /\ EndsWithJpg(TextAt(lines, index + 1))

\* ... and that line is an integer
AtImageWithCount ==
    /\ AtImageWithNext
    /\ IntParses(TextAt(lines, index + 2))

\* C1: filter_annotations terminates on every finite annotation file: every
\* iteration of its scan loop moves the cursor forward (never backwards, never
\* leaving it in place), whatever integer the count line of a record with a
\* missing image holds, so that end-of-input is reached and the file written.
C1_FilterScanAdvances ==
    [][(pass = "filter" /\ pc = "loop" /\ pc' = "loop") => index' > index]_vars

\* a file of well-formed records from line p on: image line, count line
\* holding n >= 0, n further lines
RECURSIVE WellFormedFrom(_, _)
WellFormedFrom(ls, p) ==
    IF p > Len(ls) THEN TRUE
    ELSE /\ EndsWithJpg(TextAt(ls, p))
         /\ p + 1 <= Len(ls)
         /\ IntParses(TextAt(ls, p + 1))
         /\ CountAt(ls, p + 1) >= 0
         /\ p + 1 + CountAt(ls, p + 1) <= Len(ls)
         /\ WellFormedFrom(ls, p + 2 + CountAt(ls, p + 1))

\* the blocks of the records of a well-formed file whose image exists
RECURSIVE KeptBlocks(_, _, _)
KeptBlocks(ls, p, ex) ==
    IF p > Len(ls) THEN <<>>
    ELSE LET n == CountAt(ls, p + 1)
         IN (IF Normpath(TextAt(ls, p)[1]) \in ex
             THEN SubSeq(ls, p, p + 1 + n) ELSE <<>>)
            \o KeptBlocks(ls, p + 2 + n, ex)

\* the number of records of a well-formed file whose image does not exist
RECURSIVE MissingRecords(_, _, _)
MissingRecords(ls, p, ex) ==
    IF p > Len(ls) THEN 0
    ELSE (IF Normpath(TextAt(ls, p)[1]) \in ex THEN 0 ELSE 1)
         + MissingRecords(ls, p + 2 + CountAt(ls, p + 1), ex)

\* a raw line without the white space around its text, newline-terminated
Trimmed(l) == [toks |-> l.toks, pad |-> FALSE]

FilterFinishedWellFormed ==
    /\ pass = "filter" /\ pc = "done"
    /\ WellFormedFrom(lines, 1)

\* C2 as stated: on a file of well-formed records the filtered file is the
\* blocks of the records whose image exists, in input order, byte for byte,
\* and the missing images number the records whose image does not exist.
C2_KeptBlocksVerbatim ==
    FilterFinishedWellFormed =>
        /\ outfile = <<KeptBlocks(lines, 1, existing)>>
        /\ Len(missing_images) = MissingRecords(lines, 1, existing)

\* C2 amended: on a file of well-formed records the filtered file is the
\* blocks of the records whose image exists, in input order, each line
\* without the white space around its text and ended by one newline; no line
\* of a record whose image is missing is written; the missing images number
\* the records whose image does not exist.
C2_KeptBlocksTrimmed ==
    FilterFinishedWellFormed =>
        LET kept == KeptBlocks(lines, 1, existing)
        IN /\ outfile = <<[k \in 1..Len(kept) |-> Trimmed(kept[k])]>>
           /\ Len(missing_images) = MissingRecords(lines, 1, existing)

\* a well-formed file with a kept record that owns a box line, filtered
C2_WitnessKeptBox ==
    /\ FilterFinishedWellFormed
    /\ Len(lines) >= 3
    /\ Len(outfile[1]) >= 3
    /\ processed_images >= 1

\* a well-formed file with a kept and a missing record, filtered
C2_Witness ==
    /\ FilterFinishedWellFormed
    /\ Len(missing_images) >= 1
    /\ processed_images >= 1

\* C3: every image line that the filter pass writes is immediately followed
\* in the output by the integer count line of its record and by the box lines
\* of the record that the input holds.
C3_ImageLineHasCountLine ==
    [][(pass = "filter" /\ Len(filtered_lines') > Len(filtered_lines)) =>
          LET old == Len(filtered_lines)
              new == filtered_lines'
          IN /\ EndsWithJpg(new[old + 1].toks)
             /\ Len(new) >= old + 2
             /\ IntParses(new[old + 2].toks)
             /\ Len(new) = old + 2 + (index' - (index + 2))
      ]_vars

\* ------------------------------------------------- claims on the conversion
\* a box line is dropped: fewer than 4 tokens, or one of the first four is
\* no integer
Dropped(text) ==
    \/ Len(text) < 4
    \/ \E k \in 1..4 : text[k] \notin IntToks

\* the boxes of the accepted lines among the raw lines owned, in input order
AcceptedBoxes(owned) ==
    LET acc == SelectSeq(owned, LAMBDA l : ~Dropped(l.toks))
    IN [k \in 1..Len(acc) |-> [j \in 1..4 |-> IntOf(acc[k].toks[j])]]

DroppedCount(owned) ==
    Cardinality({k \in 1..Len(owned) : Dropped(owned[k].toks)})

\* the log records of the step
NewLog == SubSeq(log', Len(log) + 1, Len(log'))

\* what the step logged about the size probe and the two output blocks
OutputStage == SubSeq(log', Len(log') - 1, Len(log'))

SizeResolved == OutputStage[1][1] # "size_error"

\* the YOLO file a list of boxes gives once its block ran to the end
YoloOf(boxes, size) ==
    [k \in 1..Len(boxes) |-> convert_to_yolo(boxes[k], size[1], size[2])]

\* the record at the cursor declares n >= 0 boxes and the file holds them
AtCompleteRecord ==
    /\ pass = "process"
    /\ AtImageWithCount
    /\ CountAt(lines, index + 2) >= 0
    /\ index + 2 + CountAt(lines, index + 2) <= Len(lines)

\* C4: in the conversion pass a record with declared count n followed by at
\* least n lines moves the cursor exactly n lines past its count line, drops
\* exactly the box lines with fewer than 4 tokens or a non-integer among the
\* first four, and its box list is the accepted lines in input order, of
\* length n minus the number of dropped lines.
C4_BoxLinesConsumed ==
    [][AtCompleteRecord =>
          LET n == CountAt(lines, index + 2)
              owned == SubSeq(lines, index + 3, index + 2 + n)
          IN /\ index' = index + 2 + n
             /\ bounding_boxes' = AcceptedBoxes(owned)
             /\ Len(bounding_boxes') = n - DroppedCount(owned)
             /\ Len(NewLog) = DroppedCount(owned) + 2
      ]_vars

\* a record of two box lines, one accepted and one dropped, has been read
C4_Witness ==
    /\ pass = "process"
    /\ Len(lines) = 4 /\ index = 4
    /\ EndsWithJpg(TextAt(lines, 1))
    /\ TextAt(lines, 2) = <<"2">>
    /\ Len(bounding_boxes) = 1
    /\ DroppedCount(SubSeq(lines, 3, 4)) = 1

\* C5: when the line after an image line does not parse as an integer, both
\* passes skip that one line only and resume at the very next line, and the
\* conversion pass writes no YOLO and no VOC output for the image.
C5_BadCountSkipsOneLine ==
    [][(AtImageWithNext /\ ~IntParses(TextAt(lines, index + 2))) =>
          /\ index' = index + 2
          /\ pc' = "loop"
          /\ UNCHANGED <<yolo_files, voc_files, yolo_file_count, voc_file_count>>
          /\ UNCHANGED processed_images
      ]_vars

\* the conversion pass stands at a box line that follows an image line and
\* has just been refused as its count
C5_Witness ==
    /\ pass = "process" /\ pc = "loop"
    /\ index = 2 /\ Len(lines) >= 3
    /\ EndsWithJpg(TextAt(lines, 1))
    /\ ~IntParses(TextAt(lines, 2))
    /\ log = <<Logged("bad_count", TextAt(lines, 1))>>
    /\ yolo_files = NoFiles /\ voc_files = NoFiles

\* C6: a count line holding a negative integer is handled like a count line
\* that does not parse, in both passes: one line skipped, the scan resumed at
\* the next line, no record and no output for the image.
C6_NegativeCountRejected ==
    [][(AtImageWithCount /\ CountAt(lines, index + 2) < 0) =>
          /\ index' = index + 2
          /\ UNCHANGED <<yolo_files, voc_files, yolo_file_count, voc_file_count>>
          /\ UNCHANGED processed_images
          /\ Len(filtered_lines') <= Len(filtered_lines) + 1
      ]_vars

\* C7: when the input ends after k < count box lines of the last record, the
\* conversion pass builds the record from the valid boxes among those k
\* lines, logs the shortage, passes the record to the output stage like any
\* other (size probe, then YOLO and VOC attempted when the size resolves), and
\* leaves the cursor at end-of-input, where the loop ends without reading on.
C7_TruncatedRecord ==
    [][(pass = "process" /\ AtImageWithCount
          /\ CountAt(lines, index + 2) > Len(lines) - (index + 2)) =>
          LET owned == SubSeq(lines, index + 3, Len(lines))
              image == TextAt(lines, index + 1)[1]
              ypath == YoloPath(Normpath(image))
              vpath == VocPath(Normpath(image), output_voc_dir)
          IN /\ index' = Len(lines)
             /\ pc' = "loop"
             /\ bounding_boxes' = AcceptedBoxes(owned)
             /\ \E k \in 1..Len(NewLog) : NewLog[k] = Logged("not_enough", <<image>>)
             /\ \/ OutputStage[1][1] = "size_error"
                \/ /\ OutputStage[1][1] \in {"yolo_saved", "yolo_error"}
                   /\ OutputStage[2][1] \in {"xml_saved", "voc_error"}
             /\ OutputStage[1][1] = "yolo_saved" =>
                   /\ ypath \in DOMAIN yolo_files'
                   /\ \E size \in SizeAnswers \ {<<>>} :
                         yolo_files'[ypath] = YoloOf(AcceptedBoxes(owned), size)
             /\ OutputStage[2][1] = "xml_saved" =>
                   /\ vpath \in DOMAIN voc_files'
                   /\ Len(voc_files'[vpath].objects) = Len(AcceptedBoxes(owned))
      ]_vars

\* a file ending one box line into a record of two has been converted: one
\* box, both files written, the pass at its end
C7_Witness ==
    /\ pass = "process" /\ pc = "done"
    /\ Len(lines) = 3 /\ index = 3
    /\ EndsWithJpg(TextAt(lines, 1))
    /\ TextAt(lines, 2) = <<"2">>
    /\ Len(bounding_boxes) = 1
    /\ yolo_file_count = 1 /\ voc_file_count = 1
    /\ Len(yolo_files[YoloPath(Normpath(TextAt(lines, 1)[1]))]) = 1

\* C8: a record with count 0 whose image size resolves consumes no box line;
\* unless the operating system refuses the write, its VOC document holds the
\* fixed fields and no object element, its YOLO file holds no line, and each
\* counter goes up by one.
C8_EmptyRecord ==
    [][(pass = "process" /\ AtImageWithCount /\ CountAt(lines, index + 2) = 0) =>
          LET image == TextAt(lines, index + 1)[1]
              ypath == YoloPath(Normpath(image))
              vpath == VocPath(Normpath(image), output_voc_dir)
          IN /\ index' = index + 2
             /\ bounding_boxes' = <<>>
             /\ Len(NewLog) = 2
             /\ SizeResolved =>
                   /\ OutputStage[1][1] # "yolo_error" =>
                         /\ ypath \in DOMAIN yolo_files'
                         /\ yolo_files'[ypath] = <<>>
                         /\ yolo_file_count' = yolo_file_count + 1
                   /\ OutputStage[2][1] # "voc_error" =>
                         /\ vpath \in DOMAIN voc_files'
                         /\ voc_files'[vpath].objects = <<>>
                         /\ voc_files'[vpath].folder = "voc"
                         /\ voc_files'[vpath].filename \in {"a.jpg", "a.JPG"}
                         /\ voc_files'[vpath].database = "WIDER Face"
                         /\ voc_files'[vpath].depth = "3"
                         /\ voc_files'[vpath].segmented = "0"
                         /\ <<voc_files'[vpath].width, voc_files'[vpath].height>>
                               \in {<<"4", "2">>, <<"0", "2">>}
                         /\ voc_file_count' = voc_file_count + 1
      ]_vars

\* a file holding one record with count 0 has been converted into both files
C8_Witness ==
    /\ pass = "process" /\ pc = "done"
    /\ Len(lines) = 2
    /\ EndsWithJpg(TextAt(lines, 1))
    /\ TextAt(lines, 2) = <<"0">>
    /\ yolo_file_count = 1 /\ voc_file_count = 1
    /\ yolo_files[YoloPath(Normpath(TextAt(lines, 1)[1]))] = <<>>
    /\ voc_files[VocPath(Normpath(TextAt(lines, 1)[1]), output_voc_dir)].objects = <<>>

\* the number of box lines a record with count n at the cursor owns
OwnedLines(n) ==
    IF n <= 0 THEN 0
    ELSE IF n > Len(lines) - (index + 2) THEN Len(lines) - (index + 2)
    ELSE n

\* C9: when the image size resolver fails for a record, the conversion pass
\* writes neither file for it, leaves both counters as they are, and goes on
\* at the line after the last box line of the record.
C9_UnsizedRecordSkipped ==
    [][(pass = "process" /\ AtImageWithCount /\ ~SizeResolved) =>
          /\ UNCHANGED <<yolo_files, voc_files, yolo_file_count, voc_file_count>>
          /\ index' = index + 2 + OwnedLines(CountAt(lines, index + 2))
          /\ pc' = "loop"
          /\ OutputStage[2] = Logged("skip_size", TextAt(lines, index + 1))
      ]_vars

\* the first record failed in the size probe and the second was converted
C9_Witness ==
    /\ pass = "process" /\ pc = "done"
    /\ Len(log) >= 4
    /\ log[1][1] = "size_error"
    /\ log[Len(log)][1] = "xml_saved"
    /\ yolo_file_count = 1 /\ voc_file_count = 1

\* C10: for a record whose image size resolves both outputs are attempted
\* whatever happens to the other one, the pass goes on, a YOLO file that was
\* saved stays as saved when the VOC document fails, and each counter goes up
\* by one exactly when its own output was saved.
C10_IndependentOutputs ==
    [][(pass = "process" /\ AtImageWithCount /\ SizeResolved) =>
          LET image == TextAt(lines, index + 1)[1]
              ypath == YoloPath(Normpath(image))
              vpath == VocPath(Normpath(image), output_voc_dir)
              y == OutputStage[1][1]
              v == OutputStage[2][1]
          IN /\ y \in {"yolo_saved", "yolo_error"}
             /\ v \in {"xml_saved", "voc_error"}
             /\ pc' = "loop"
             /\ yolo_file_count' = yolo_file_count + (IF y = "yolo_saved" THEN 1 ELSE 0)
             /\ voc_file_count' = voc_file_count + (IF v = "xml_saved" THEN 1 ELSE 0)
             /\ y = "yolo_saved" =>
                   /\ ypath \in DOMAIN yolo_files'
                   /\ Len(yolo_files'[ypath]) = Len(bounding_boxes')
             /\ v = "xml_saved" =>
                   /\ vpath \in DOMAIN voc_files'
                   /\ Len(voc_files'[vpath].objects) = Len(bounding_boxes')
             /\ v = "voc_error" => voc_files' = voc_files
      ]_vars

\* one record lost its YOLO file and kept its VOC document, another lost its
\* VOC document and kept its YOLO file, and the pass ran to its end
C10_Witness ==
    /\ pass = "process" /\ pc = "done"
    /\ yolo_file_count = 1 /\ voc_file_count = 1
    /\ \E j, k \in 1..Len(log) :
          /\ log[j][1] = "yolo_error" /\ log[j + 1][1] = "xml_saved"
          /\ log[k][1] = "yolo_saved" /\ log[k + 1][1] = "voc_error"

\* ------------------------------------------------ create_voc_xml, called
\* the longest list of boxes handed to create_voc_xml
MaxBoxes == 3

\* the boxes handed to create_voc_xml: lists of 4 integers, and lists of
\* another length, which only a caller other than process_annotations passes
VocBoxes == {<<449, 330, 122, 149>>, <<1, 2, 3, 4>>, <<1, 2, 3>>, <<1, 2, 3, 4, 5>>}

BoxLists == UNION {[1..n -> VocBoxes] : n \in 0..MaxBoxes}

\* the warnings of create_voc_xml about boxes of another length than 4
RECURSIVE VocWarnings(_)
VocWarnings(boxes) ==
    IF boxes = <<>> THEN <<>>
    ELSE (IF Len(Head(boxes)) # 4 THEN <<Logged("invalid_bbox", <<>>)>> ELSE <<>>)
         \o VocWarnings(Tail(boxes))

\* a call create_voc_xml(filename, width, height, bounding_boxes, output_dir)
VocInit ==
    /\ pass = "voc"
    /\ pc = "loop"
    /\ lines = <<>>
    /\ existing = {}
    /\ index = 0
    /\ current_image \in ImagePaths
    /\ filtered_lines = <<>>
    /\ missing_images = <<>>
    /\ processed_images = 0
    /\ outfile = <<>>
    /\ bounding_boxes \in BoxLists
    /\ yolo_file_count = 0
    /\ voc_file_count = 0
    /\ yolo_files = NoFiles
    /\ voc_files = NoFiles
    /\ log = <<>>
    /\ img_size \in SizeAnswers \ {<<>>}
    /\ first_run = <<>>

\* the call builds the document and writes it
VocCall ==
    /\ pass = "voc" /\ pc = "loop"
    /\ voc_files' = WriteFile(voc_files, VocPath(current_image, output_voc_dir),
                              VocDocument(current_image, img_size[1], img_size[2],
                                          bounding_boxes, output_voc_dir))
    /\ log' = log \o VocWarnings(bounding_boxes)
                  \o <<Logged("xml_saved", VocPath(current_image, output_voc_dir))>>
    /\ pc' = "done"
    /\ UNCHANGED <<pass, lines, existing, index, current_image, bounding_boxes,
                   yolo_file_count, voc_file_count, yolo_files, img_size>>
    /\ UNCHANGED filterVars

\* the call builds the document, and makedirs or write raises
VocCallRaises ==
    /\ pass = "voc" /\ pc = "loop"
    /\ log' = log \o VocWarnings(bounding_boxes)
    /\ pc' = "raised"
    /\ UNCHANGED <<pass, lines, existing, index, current_image>>
    /\ UNCHANGED filterVars
    /\ UNCHANGED convVars

VocNext == VocCall \/ VocCallRaises

VocSpec == VocInit /\ [][VocNext]_vars

\* the boxes of exactly 4 components, in the order given
ValidBoxes(boxes) == SelectSeq(boxes, LAMBDA b : Len(b) = 4)

\* C12: the VOC document holds one object element for each box of exactly 4
\* components, in the order of the boxes, with xmin, ymin of the box,
\* xmax = xmin + width and ymax = ymin + height (449 330 122 149 gives 449,
\* 330, 571, 479); a box of another length gives no object element.
C12_VocObjects ==
    (pass = "voc" /\ pc = "done") =>
       LET doc == voc_files[VocPath(current_image, output_voc_dir)]
           valid == ValidBoxes(bounding_boxes)
       IN /\ Len(doc.objects) = Len(valid)
          /\ \A k \in 1..Len(valid) :
                /\ doc.objects[k].xmin = ToString(valid[k][1])
                /\ doc.objects[k].ymin = ToString(valid[k][2])
                /\ doc.objects[k].xmax = ToString(valid[k][1] + valid[k][3])
                /\ doc.objects[k].ymax = ToString(valid[k][2] + valid[k][4])
                /\ valid[k] = <<449, 330, 122, 149>> =>
                      <<doc.objects[k].xmin, doc.objects[k].ymin,
                        doc.objects[k].xmax, doc.objects[k].ymax>>
                         = <<"449", "330", "571", "479">>

\* a document written for three boxes, one of them of 3 components and one
\* the box 449 330 122 149
C12_Witness ==
    /\ pass = "voc" /\ pc = "done"
    /\ Len(bounding_boxes) = 3
    /\ bounding_boxes[1] = <<449, 330, 122, 149>>
    /\ Len(bounding_boxes[2]) = 3
    /\ Len(voc_files[VocPath(current_image, output_voc_dir)].objects) = 2
    /\ voc_files[VocPath(current_image, output_voc_dir)].objects[1].xmax = "571"

\* ----------------------------------------------- convert_to_yolo, called
\* the largest coordinate of the boxes handed to convert_to_yolo
MaxCoord == 2

YoloBoxes == [1..4 -> (0 - 1)..MaxCoord]

YoloSizes == {<<1, 1>>, <<4, 2>>, <<3, 5>>, <<0, 2>>}

\* a call convert_to_yolo(bbox, img_width, img_height) in the with-block of
\* the file of an image
YoloInit ==
    /\ pass = "yolo"
    /\ pc = "loop"
    /\ lines = <<>>
    /\ existing = {}
    /\ index = 0
    /\ current_image = "p/a.jpg"
    /\ filtered_lines = <<>>
    /\ missing_images = <<>>
    /\ processed_images = 0
    /\ outfile = <<>>
    /\ bounding_boxes \in {<<bbox>> : bbox \in YoloBoxes}
    /\ yolo_file_count = 0
    /\ voc_file_count = 0
    /\ yolo_files = NoFiles
    /\ voc_files = NoFiles
    /\ log = <<>>
    /\ img_size \in YoloSizes
    /\ first_run = <<>>

\* the call returns and its line is written
YoloCall ==
    /\ pass = "yolo" /\ pc = "loop"
    /\ ~YoloRaises(bounding_boxes[1], img_size[1], img_size[2])
    /\ yolo_files' = WriteFile(yolo_files, YoloPath(current_image),
                               <<convert_to_yolo(bounding_boxes[1], img_size[1], img_size[2])>>)
    /\ pc' = "done"
    /\ UNCHANGED <<pass, lines, existing, index, current_image, log, bounding_boxes,
                   yolo_file_count, voc_file_count, voc_files, img_size>>
    /\ UNCHANGED filterVars

\* the call raises ZeroDivisionError: the file stays as open() left it
YoloCallRaises ==
    /\ pass = "yolo" /\ pc = "loop"
    /\ YoloRaises(bounding_boxes[1], img_size[1], img_size[2])
    /\ yolo_files' = WriteFile(yolo_files, YoloPath(current_image), <<>>)
    /\ pc' = "raised"
    /\ UNCHANGED <<pass, lines, existing, index, current_image, log, bounding_boxes,
                   yolo_file_count, voc_file_count, voc_files, img_size>>
    /\ UNCHANGED filterVars

YoloNext == YoloCall \/ YoloCallRaises

YoloSpec == YoloInit /\ [][YoloNext]_vars

\* arithmetic on fractions for the decoding
QMul(p, k) == <<p[1] * k, p[2]>>

QSub(p, q) == <<p[1] * q[2] - q[1] * p[2], p[2] * q[2]>>

QEq(p, q) == p[1] * q[2] = q[1] * p[2]

\* C14: decoding the YOLO record of a box gives the box back: with the
\* record (xc, yc, wn, hn) of the box (xmin, ymin, width, height) for an
\* image size W, H > 0, xc*W - (wn*W)/2 = xmin, yc*H - (hn*H)/2 = ymin,
\* wn*W = width and hn*H = height, as exact fractions, and the class is 0.
C14_YoloRoundTrip ==
    (pass = "yolo" /\ pc = "done") =>
       LET r == yolo_files[YoloPath(current_image)][1]
           bbox == bounding_boxes[1]
           W == img_size[1]
           H == img_size[2]
       IN /\ r.cls = "0"
          /\ QEq(QSub(QMul(r.x_center, W), QDiv(QMul(r.width_norm, W), 2)), Q(bbox[1]))
          /\ QEq(QSub(QMul(r.y_center, H), QDiv(QMul(r.height_norm, H), 2)), Q(bbox[2]))
          /\ QEq(QMul(r.width_norm, W), Q(bbox[3]))
          /\ QEq(QMul(r.height_norm, H), Q(bbox[4]))

\* a box of odd width and height converted for an image of 3 by 5
C14_Witness ==
    /\ pass = "yolo" /\ pc = "done"
    /\ bounding_boxes = << <<2, 1, 1, 1>> >>
    /\ img_size = <<3, 5>>
    /\ QEq(yolo_files[YoloPath(current_image)][1].x_center, <<5, 6>>)

\* ------------------------------------------- filter_annotations, run again
\* what a finished run of filter_annotations leaves behind
RunResult(on) ==
    [on |-> on, out |-> outfile[1], processed |-> processed_images,
     missing |-> missing_images]

\* filter_annotations is called a second time with the same arguments: its
\* locals start afresh, the files on disk are as the first run left them
FilterAgain ==
    /\ pass = "filter" /\ pc = "done"
    /\ first_run = <<>>
    /\ first_run' = <<RunResult("same")>>
    /\ pc' = "loop"
    /\ index' = 0
    /\ current_image' = ""
    /\ filtered_lines' = <<>>
    /\ missing_images' = <<>>
    /\ processed_images' = 0
    /\ UNCHANGED <<pass, lines, existing, outfile, log>>
    /\ UNCHANGED convVars

\* filter_annotations is called a second time on the file it has written
FilterOutput ==
    /\ pass = "filter" /\ pc = "done"
    /\ first_run = <<>>
    /\ first_run' = <<RunResult("output")>>
    /\ lines' = outfile[1]
    /\ pc' = "loop"
    /\ index' = 0
    /\ current_image' = ""
    /\ filtered_lines' = <<>>
    /\ missing_images' = <<>>
    /\ processed_images' = 0
    /\ UNCHANGED <<pass, existing, outfile, log>>
    /\ UNCHANGED convVars

RerunNext == FilterNext \/ FilterAgain

RerunSpec == FilterInit /\ [][RerunNext]_vars

RefilterNext == FilterNext \/ FilterOutput

RefilterSpec == FilterInit /\ [][RefilterNext]_vars

\* the second run of the kind named has finished
SecondRunDone(on) ==
    /\ pass = "filter" /\ pc = "done"
    /\ first_run # <<>>
    /\ first_run[1].on = on

\* C15: a second run of filter_annotations on the same annotation lines with
\* the same image-existence answers leaves the same output file content, the
\* same processed count and the same list of missing images as the first.
C15_SecondRunSame ==
    SecondRunDone("same") =>
       /\ outfile = <<first_run[1].out>>
       /\ processed_images = first_run[1].processed
       /\ missing_images = first_run[1].missing

\* two runs on a file with a kept record and a missing image have finished
C15_Witness ==
    /\ SecondRunDone("same")
    /\ Len(outfile[1]) >= 2
    /\ processed_images >= 1
    /\ Len(missing_images) >= 1

\* C18: filtering the file that filter_annotations produced, with the same
\* image-existence answers, gives that file again, for every input.
C18_FilterIdempotent ==
    SecondRunDone("output") => outfile = <<first_run[1].out>>

\* ----------------------------------------------------- claims on the paths
\* <dir>/<relative path of the image without its extension><ext>
KeyedPath(dir, image_path, ext) == <<dir, SplitextStem(image_path), ext>>

\* C11: every YOLO file on disk is <output_yolo_dir>/<relative stem path>.txt
\* and every VOC file is <output_voc_dir>/<relative stem path>.xml of the
\* image it was written for, so that the files of two records with different
\* relative image paths are different files.
C11_OutputsKeyedByRelativePath ==
    pass = "process" =>
       /\ \A p \in DOMAIN yolo_files :
             \E image_path \in ImagePaths : p = KeyedPath(output_yolo_dir, image_path, ".txt")
       /\ \A p \in DOMAIN voc_files :
             \E image_path \in ImagePaths :
                /\ p = KeyedPath(output_voc_dir, image_path, ".xml")
                /\ voc_files[p].filename = Basename(image_path)

\* ------------------------------------------------- claims on the two scans
\* the scan is at an image line (a record boundary holding an image line)
AtImageLine ==
    /\ pass \in {"filter", "process"}
    /\ pc = "loop"
    /\ index < Len(lines)
    /\ EndsWithJpg(Strip(LineAt(lines, index)))

\* the line after the lines owned by the record whose image line is line i
\* (0-based): the image line alone when no integer follows it, else the image
\* line, the count line and as many following lines as the count says and
\* the file holds
RecordEnd(ls, i) ==
    IF i + 1 >= Len(ls) THEN i + 1
    ELSE IF ~IntParses(TextAt(ls, i + 2)) THEN i + 2
    ELSE LET n == CountAt(ls, i + 2)
             left == Len(ls) - (i + 2)
         IN i + 2 + (IF n <= 0 THEN 0 ELSE IF n > left THEN left ELSE n)

\* the cursor, or the end of the file when the cursor is past it
CursorOrEnd(i) == IF i > Len(lines) THEN Len(lines) ELSE i

\* C13: both passes recognise the same records on the same lines, whatever
\* the image-existence answers: both start at line 0, and from an image line
\* at a record boundary either pass goes on at the line after the lines the
\* record owns (so the same image lines, counts and ranges follow), also for
\* a missing image, a count beyond the end of the file or a negative count.
C13_SameRecords ==
    [][AtImageLine =>
          /\ index >= 0
          /\ CursorOrEnd(index') = RecordEnd(lines, index)
      ]_vars

\* C13 without the negative counts (not a claim: the rest of C13 holds)
C13_SameRecordsNonNegative ==
    [][(AtImageLine /\ index >= 0
          /\ ~(index + 1 < Len(lines) /\ IntParses(TextAt(lines, index + 2))
                 /\ CountAt(lines, index + 2) < 0)) =>
          CursorOrEnd(index') = RecordEnd(lines, index)
      ]_vars

\* C16: for a record with at least one valid box whose image resolves to
\* width 0 or height 0, the conversion pass writes no YOLO file and no VOC
\* file (no empty YOLO file either), counts nothing, and goes on with the
\* next record.
C16_ZeroSizeSkipped ==
    [][(pass = "process" /\ AtImageWithCount
          /\ img_size' # <<>>
          /\ (img_size'[1] = 0 \/ img_size'[2] = 0)
          /\ Len(bounding_boxes') >= 1) =>
          /\ UNCHANGED <<yolo_files, voc_files, yolo_file_count, voc_file_count>>
          /\ pc' = "loop"
          /\ index' > index
      ]_vars

\* the scheduling of the conversion pass: a sequential loop, which takes its
\* next step whenever there is one
FairConvSpec == ConvSpec /\ WF_vars(ConvNext)

\* the step is an iteration of the scan loop of process_annotations
ConvIteration == pass = "process" /\ pc = "loop" /\ pc' = "loop"

\* C17: the conversion pass terminates on every finite annotation file: each
\* iteration of its scan loop strictly increases the cursor and never takes
\* it past the end of the file, for every integer count, and the loop ends
\* and the summary is logged.
C17_ConvTerminates ==
    /\ [][ConvIteration => (index' > index /\ index' <= Len(lines))]_vars
    /\ <>(pc = "done")

\* the pass has ended on a file holding a record with a negative count and,
\* after it, a line that is no image line
C17_Witness ==
    /\ pass = "process" /\ pc = "done"
    /\ Len(lines) >= 3 /\ index = Len(lines)
    /\ EndsWithJpg(TextAt(lines, 1))
    /\ TextAt(lines, 2) = <<"-3">>
    /\ ~EndsWithJpg(TextAt(lines, 3))

\* C19: the filter summary accounts for every image line met at a record
\* boundary: the step at such a line adds one to processed_images or one
\* entry to missing_images, and no other step changes either, also when the
\* count line is malformed or the image line is the last line.
C19_EveryImageCounted ==
    [][(pass = "filter" /\ pc = "loop") =>
          processed_images' + Len(missing_images')
             = processed_images + Len(missing_images)
               + (IF AtImageLine THEN 1 ELSE 0)
      ]_vars

====
